---- MODULE Spec2Model ----
(***************************************************************************)
(* Mass-property aggregation (+= / -= of collider mass properties) and the *)
(* rigid-body accessors of src/components/world_queries.rs.                *)
(*                                                                         *)
(* Scalars are modelled as exact extended rationals <<n, d>>:              *)
(*   d > 0  : the finite value n/d in lowest terms,                        *)
(*   <<1,0>>, <<-1,0>> : +infinity, -infinity (IEEE 754 x/0),              *)
(*   <<0,0>> : NaN (IEEE 754 0/0).                                         *)
(* Rounding of floating-point arithmetic is not modelled.                  *)
(***************************************************************************)
EXTENDS Integers, Sequences, FiniteSets

\* ------------------------------------------------------------------------
\* Bounds of the model
\* ------------------------------------------------------------------------

\* Number of += / -= operations applied to one body in a run.
MaxOps == 2

\* ------------------------------------------------------------------------
\* Scalar arithmetic
\* ------------------------------------------------------------------------

Abs(x) == IF x < 0 THEN -x ELSE x

Sign(x) == IF x < 0 THEN -1 ELSE IF x > 0 THEN 1 ELSE 0

RECURSIVE GCD(_, _)
GCD(a, b) == IF b = 0 THEN a ELSE GCD(b, a % b)

\* n/d in lowest terms with a positive denominator; x/0 is an infinity or NaN.
Norm(n, d) ==
    IF d = 0 THEN <<Sign(n), 0>>
    ELSE LET g == GCD(Abs(n), Abs(d))
             s == Sign(d)
         IN  <<s * (n \div g), s * (d \div g)>>

Int2S(i) == <<i, 1>>

ZERO == Int2S(0)

ONE == Int2S(1)

INFINITY == <<1, 0>>

IsNaN(a) == a[1] = 0 /\ a[2] = 0

FNeg(a) == <<-a[1], a[2]>>

\* a + b for finite a, b.
FAdd(a, b) ==
    LET g == GCD(a[2], b[2])
    IN  Norm(a[1] * (b[2] \div g) + b[1] * (a[2] \div g), (a[2] \div g) * b[2])

FSub(a, b) == FAdd(a, FNeg(b))

\* a * b for finite a, b.
FMul(a, b) ==
    LET g1 == GCD(Abs(a[1]), b[2])
        g2 == GCD(Abs(b[1]), a[2])
    IN  Norm((a[1] \div g1) * (b[1] \div g2), (a[2] \div g2) * (b[2] \div g1))

\* a / b for finite a, b; a nonzero value over zero is an infinity, 0/0 is NaN.
FDiv(a, b) ==
    IF b[1] = 0 THEN <<Sign(a[1]), 0>>
    ELSE FMul(a, <<Sign(b[1]) * b[2], Abs(b[1])>>)

\* a <= b; every comparison with NaN is false.
FLe(a, b) ==
    IF IsNaN(a) \/ IsNaN(b) THEN FALSE
    ELSE IF a[2] = 0 /\ b[2] = 0 THEN a[1] <= b[1]
    ELSE a[1] * b[2] <= b[1] * a[2]

FGt(a, b) ==
    IF IsNaN(a) \/ IsNaN(b) THEN FALSE ELSE ~FLe(a, b)

\* f32::max / f64::max of two non-NaN values.
FMax(a, b) == IF FLe(a, b) THEN b ELSE a

\* Scalar::EPSILON is 2^-23 when Scalar = f32 (2^-52 when Scalar = f64).
EPSILON_DEN == 8388608

EPSILON == <<1, EPSILON_DEN>>

\* ------------------------------------------------------------------------
\* Vector2
\* ------------------------------------------------------------------------

VAdd(u, v) == <<FAdd(u[1], v[1]), FAdd(u[2], v[2])>>

VSub(u, v) == <<FSub(u[1], v[1]), FSub(u[2], v[2])>>

VScale(u, s) == <<FMul(u[1], s), FMul(u[2], s)>>

VDiv(u, s) == <<FDiv(u[1], s), FDiv(u[2], s)>>

length_squared(u) == FAdd(FMul(u[1], u[1]), FMul(u[2], u[2]))

splat2(s) == <<s, s>>

splat3(s) == <<s, s, s>>

\* ------------------------------------------------------------------------
\* Collaborators of world_queries.rs (Inertia2d, LockedAxes, RigidBody)
\* ------------------------------------------------------------------------

\* Inertia2d::shifted: parallel-axis shift, I' = I + m * |d|^2.
shifted(inertia, mass, offset) == FAdd(inertia, FMul(mass, length_squared(offset)))

\* Inertia2d::inverse: the reciprocal, and zero for a singular (zero) inertia.
inverse(inertia) == IF inertia[1] = 0 THEN ZERO ELSE FDiv(ONE, inertia)

\* LockedAxes: the set of locked axes; the optional component is
\* [present |-> FALSE, axes |-> {}] when absent.
TranslationAxes2d == <<"TX", "TY">>

TranslationAxes3d == <<"TX", "TY", "TZ">>

\* LockedAxes::apply_to_vec: zero the components of the locked translation axes.
apply_to_vec(axes, names, vec) ==
    [i \in DOMAIN vec |-> IF names[i] \in axes THEN ZERO ELSE vec[i]]

\* LockedAxes2d::apply_to_rotation: zero the value when the rotation is locked.
apply_to_rotation(axes, inv_inertia) ==
    IF "RZ" \in axes THEN ZERO ELSE inv_inertia

RigidBodyKinds == {"Dynamic", "Static", "Kinematic"}

\* RigidBody::is_dynamic
is_dynamic(rb) == rb = "Dynamic"

\* ------------------------------------------------------------------------
\* RigidBodyQuery2dItem / RigidBodyQuery3dItem accessors
\* ------------------------------------------------------------------------

I8_MAX == 127

I8_MIN == -128

\* Faulty variant of effective_inv_mass: the locked axes are ignored.
effective_inv_mass_ignores_locks(self, locked_axes) == splat2(self.inverse_mass)

effective_inv_mass(self, locked_axes) ==
    LET inv_mass == splat2(self.inverse_mass)
    IN  IF locked_axes.present
        THEN apply_to_vec(locked_axes.axes, TranslationAxes2d, inv_mass)
        ELSE inv_mass

effective_inv_mass_3d(self, locked_axes) ==
    LET inv_mass == splat3(self.inverse_mass)
    IN  IF locked_axes.present
        THEN apply_to_vec(locked_axes.axes, TranslationAxes3d, inv_mass)
        ELSE inv_mass

effective_world_inv_inertia(self, locked_axes) ==
    LET inv_inertia == self.inverse_inertia
    IN  IF locked_axes.present
        THEN apply_to_rotation(locked_axes.axes, inv_inertia)
        ELSE inv_inertia

\* Faulty variant of dominance: the override is returned whatever the body's kind.
dominance_override_wins(rb, dom) == IF dom.present THEN dom.value ELSE 0

dominance(rb, dom) ==
    IF ~is_dynamic(rb) THEN I8_MAX
    ELSE IF dom.present THEN dom.value ELSE 0

dominance_3d(rb, dom) ==
    IF ~is_dynamic(rb) THEN I8_MAX
    ELSE IF dom.present THEN dom.value ELSE 0

\* ------------------------------------------------------------------------
\* MassPropertiesQuery2dItem += / -= ColliderMassProperties2d
\* ------------------------------------------------------------------------

\* "Update mass properties": the five assignments that end both operators.
commit(self, new_mass, new_inertia, new_com) ==
    [mass            |-> new_mass,
     inverse_mass    |-> FDiv(ONE, new_mass),
     inertia         |-> new_inertia,
     inverse_inertia |-> inverse(new_inertia),
     center_of_mass  |-> new_com]

\* Faulty variant of add_assign: the combined center of mass is the plain average.
add_assign_unweighted_com(self, rhs) ==
    LET new_mass == FAdd(self.mass, rhs.mass)
        com1 == self.center_of_mass
        com2 == rhs.center_of_mass
        new_com == VDiv(VAdd(com1, com2), Int2S(2))
        i1 == shifted(self.inertia, self.mass, VSub(new_com, com1))
        i2 == shifted(rhs.inertia, rhs.mass, VSub(new_com, com2))
    IN  IF FLe(new_mass, ZERO) THEN self
        ELSE commit(self, new_mass, FAdd(i1, i2), new_com)

\* Faulty variant of add_assign: the body's inertia is added without the shift.
add_assign_unshifted(self, rhs) ==
    LET new_mass == FAdd(self.mass, rhs.mass)
        com1 == self.center_of_mass
        com2 == rhs.center_of_mass
        new_com == VDiv(VAdd(VScale(com1, self.mass), VScale(com2, rhs.mass)), new_mass)
        i1 == self.inertia
        i2 == shifted(rhs.inertia, rhs.mass, VSub(new_com, com2))
    IN  IF FLe(new_mass, ZERO) THEN self
        ELSE commit(self, new_mass, FAdd(i1, i2), new_com)

add_assign(self, rhs) ==
    LET new_mass == FAdd(self.mass, rhs.mass)
        com1 == self.center_of_mass
        com2 == rhs.center_of_mass
        new_com == VDiv(VAdd(VScale(com1, self.mass), VScale(com2, rhs.mass)), new_mass)
        i1 == shifted(self.inertia, self.mass, VSub(new_com, com1))
        i2 == shifted(rhs.inertia, rhs.mass, VSub(new_com, com2))
        new_inertia == FAdd(i1, i2)
    IN  IF FLe(new_mass, ZERO) THEN self
        ELSE commit(self, new_mass, new_inertia, new_com)

\* Faulty variant of sub_assign: the new mass is not clamped at zero.
sub_assign_unclamped(self, rhs) ==
    LET new_mass == FSub(self.mass, rhs.mass)
        com1 == self.center_of_mass
        com2 == rhs.center_of_mass
        new_com == IF FGt(new_mass, EPSILON)
                   THEN VDiv(VSub(VScale(com1, self.mass), VScale(com2, rhs.mass)), new_mass)
                   ELSE com1
        i1 == shifted(self.inertia, self.mass, VSub(new_com, com1))
        i2 == shifted(rhs.inertia, rhs.mass, VSub(new_com, com2))
    IN  IF FLe(FAdd(self.mass, rhs.mass), ZERO) THEN self
        ELSE commit(self, new_mass, FSub(i1, i2), new_com)

\* Faulty variant of sub_assign: the guard tests the difference of the masses.
sub_assign_difference_guard(self, rhs) ==
    LET new_mass == FMax(FSub(self.mass, rhs.mass), ZERO)
        com1 == self.center_of_mass
        com2 == rhs.center_of_mass
        new_com == IF FGt(new_mass, EPSILON)
                   THEN VDiv(VSub(VScale(com1, self.mass), VScale(com2, rhs.mass)), new_mass)
                   ELSE com1
        i1 == shifted(self.inertia, self.mass, VSub(new_com, com1))
        i2 == shifted(rhs.inertia, rhs.mass, VSub(new_com, com2))
    IN  IF FLe(FSub(self.mass, rhs.mass), ZERO) THEN self
        ELSE commit(self, new_mass, FSub(i1, i2), new_com)

\* Faulty variant of sub_assign: the collider's moment is added, not removed.
sub_assign_added_com(self, rhs) ==
    LET new_mass == FMax(FSub(self.mass, rhs.mass), ZERO)
        com1 == self.center_of_mass
        com2 == rhs.center_of_mass
        new_com == IF FGt(new_mass, EPSILON)
                   THEN VDiv(VAdd(VScale(com1, self.mass), VScale(com2, rhs.mass)), new_mass)
                   ELSE com1
        i1 == shifted(self.inertia, self.mass, VSub(new_com, com1))
        i2 == shifted(rhs.inertia, rhs.mass, VSub(new_com, com2))
    IN  IF FLe(FAdd(self.mass, rhs.mass), ZERO) THEN self
        ELSE commit(self, new_mass, FSub(i1, i2), new_com)

\* Faulty variant of sub_assign: the inertias are subtracted without the shift.
sub_assign_unshifted(self, rhs) ==
    LET new_mass == FMax(FSub(self.mass, rhs.mass), ZERO)
        com1 == self.center_of_mass
        com2 == rhs.center_of_mass
        new_com == IF FGt(new_mass, EPSILON)
                   THEN VDiv(VSub(VScale(com1, self.mass), VScale(com2, rhs.mass)), new_mass)
                   ELSE com1
    IN  IF FLe(FAdd(self.mass, rhs.mass), ZERO) THEN self
        ELSE commit(self, new_mass, FSub(self.inertia, rhs.inertia), new_com)

sub_assign(self, rhs) ==
    LET new_mass == FMax(FSub(self.mass, rhs.mass), ZERO)
        com1 == self.center_of_mass
        com2 == rhs.center_of_mass
        new_com == IF FGt(new_mass, EPSILON)
                   THEN VDiv(VSub(VScale(com1, self.mass), VScale(com2, rhs.mass)), new_mass)
                   ELSE com1
        i1 == shifted(self.inertia, self.mass, VSub(new_com, com1))
        i2 == shifted(rhs.inertia, rhs.mass, VSub(new_com, com2))
        new_inertia == FSub(i1, i2)
    IN  IF FLe(FAdd(self.mass, rhs.mass), ZERO) THEN self
        ELSE commit(self, new_mass, new_inertia, new_com)

\* ------------------------------------------------------------------------
\* State
\* ------------------------------------------------------------------------

VARIABLES
    mass_props,          \* the body's Mass, InverseMass, Inertia2d, InverseInertia2d, CenterOfMass2d
    hist,                \* the last += / -= applied (the last two in a "pair"): [op, rhs, pre], latest first
    ops,                 \* number of += / -= applied so far
    scenario,            \* "run" (any sequence of += / -=), "pair" (two of them), or a unit test
    rb,                  \* RigidBody kind of the queried body
    locked_axes,         \* Option<&LockedAxes>
    dominance_override,  \* Option<&Dominance>
    ret                  \* the value returned by the last accessor call

vars == <<mass_props, hist, ops, scenario, rb, locked_axes, dominance_override, ret>>

\* ------------------------------------------------------------------------
\* Inputs
\* ------------------------------------------------------------------------

Vec(x, y) == <<Int2S(x), Int2S(y)>>

CentersOfMass == {Vec(0, 0), Vec(1, 0), Vec(-1, 2)}

Inertias == {ZERO, ONE}

BodyMasses == {Int2S(m) : m \in 0..2}

\* Collider masses include zero and negative (garbage) values.
ColliderMasses == {Int2S(m) : m \in -1..2}

\* A body record with inverse_mass and inverse_inertia consistent with mass and inertia.
Body(m, i, c) ==
    [mass            |-> m,
     inverse_mass    |-> IF FGt(m, ZERO) THEN FDiv(ONE, m) ELSE ZERO,
     inertia         |-> i,
     inverse_inertia |-> inverse(i),
     center_of_mass  |-> c]

InitBodies == {Body(m, i, c) : m \in BodyMasses, i \in Inertias, c \in CentersOfMass}

Collider(m, i, c) == [mass |-> m, inertia |-> i, center_of_mass |-> c]

Colliders == {Collider(m, i, c) : m \in ColliderMasses, i \in Inertias, c \in CentersOfMass}

\* The values of the unit tests: 1.6, 8.1, NEG_X * 3.8, X * 1.2 + Y.
Mass_1_6 == <<8, 5>>

Mass_8_1 == <<81, 10>>

Com_NegX_3_8 == <<<<-19, 5>>, ZERO>>

Com_X_1_2_Y == <<<<6, 5>>, ONE>>

TestNames == {"mass_properties_add_assign_works", "mass_properties_sub_assign_works"}

TestBody(test) ==
    IF test = "mass_properties_add_assign_works"
    THEN Body(Mass_1_6, ZERO, Com_NegX_3_8)
    ELSE Body(Mass_8_1, ZERO, Com_NegX_3_8)

TestCollider(test) ==
    IF test = "mass_properties_add_assign_works"
    THEN Collider(Mass_8_1, ZERO, Com_X_1_2_Y)
    ELSE Collider(Mass_1_6, ZERO, Com_X_1_2_Y)

Absent == [present |-> FALSE, value |-> 0]

NoAxes == [present |-> FALSE, axes |-> {}]

NoRet == [fn |-> "none", vec |-> <<>>, scalar |-> ZERO, i8 |-> 0]

\* ------------------------------------------------------------------------
\* Aggregation: specification Spec
\* ------------------------------------------------------------------------

Init ==
    /\ scenario \in {"run", "pair"} \cup TestNames
    /\ mass_props \in (IF scenario \in TestNames THEN {TestBody(scenario)} ELSE InitBodies)
    /\ hist = <<>>
    /\ ops = 0
    /\ rb = "Dynamic"
    /\ locked_axes = NoAxes
    /\ dominance_override = Absent
    /\ ret = NoRet

\* Operations applied in a scenario: two in a "pair", up to MaxOps in a "run".
OpsLimit == IF scenario = "pair" THEN 2 ELSE MaxOps

Record(op, c) ==
    LET entry == [op |-> op, rhs |-> c, pre |-> mass_props]
    IN  IF scenario = "pair" THEN <<entry>> \o hist ELSE <<entry>>

\* mass_props += c
AddAssign(c) ==
    /\ scenario \in {"run", "pair"}
    /\ ops < OpsLimit
    /\ mass_props' = add_assign(mass_props, c)
    /\ hist' = Record("add", c)
    /\ ops' = ops + 1
    /\ UNCHANGED <<scenario, rb, locked_axes, dominance_override, ret>>

\* mass_props -= c
SubAssign(c) ==
    /\ scenario \in {"run", "pair"}
    /\ ops < OpsLimit
    /\ mass_props' = sub_assign(mass_props, c)
    /\ hist' = Record("sub", c)
    /\ ops' = ops + 1
    /\ UNCHANGED <<scenario, rb, locked_axes, dominance_override, ret>>

\* tests::mass_properties_add_assign_works: mass_props += collider_mass_props
mass_properties_add_assign_works ==
    /\ scenario = "mass_properties_add_assign_works"
    /\ ops = 0
    /\ mass_props' = add_assign(mass_props, TestCollider(scenario))
    /\ hist' = Record("add", TestCollider(scenario))
    /\ ops' = ops + 1
    /\ UNCHANGED <<scenario, rb, locked_axes, dominance_override, ret>>

\* tests::mass_properties_sub_assign_works: mass_props -= collider_mass_props
mass_properties_sub_assign_works ==
    /\ scenario = "mass_properties_sub_assign_works"
    /\ ops = 0
    /\ mass_props' = sub_assign(mass_props, TestCollider(scenario))
    /\ hist' = Record("sub", TestCollider(scenario))
    /\ ops' = ops + 1
    /\ UNCHANGED <<scenario, rb, locked_axes, dominance_override, ret>>

Next ==
    \/ \E c \in Colliders : AddAssign(c)
    \/ \E c \in Colliders : SubAssign(c)
    \/ mass_properties_add_assign_works
    \/ mass_properties_sub_assign_works

Spec == Init /\ [][Next]_vars

\* ------------------------------------------------------------------------
\* Accessors: specification SpecQuery
\* ------------------------------------------------------------------------

\* Bodies as the accessors find them: freshly spawned, or with their only
\* collider detached again (mass 0, inverse_mass 1/0).
QueryBodies ==
    LET spawned == {b \in InitBodies : b.center_of_mass = Vec(1, 0) /\ b.inertia = ONE}
    IN  spawned \cup {sub_assign(b, Collider(b.mass, ZERO, b.center_of_mass)) : b \in spawned}

LockedAxesOptions ==
    {NoAxes} \cup {[present |-> TRUE, axes |-> a] :
                     a \in {{}, {"TX"}, {"TY"}, {"TZ"}, {"RZ"}, {"TX", "TY"}, {"TY", "TZ", "RZ"}}}

DominanceValues == I8_MIN..I8_MAX

DominanceOptions == {Absent} \cup {[present |-> TRUE, value |-> v] : v \in DominanceValues}

InitQuery ==
    /\ scenario = "query"
    /\ mass_props \in QueryBodies
    /\ hist = <<>>
    /\ ops = 0
    /\ rb \in RigidBodyKinds
    /\ locked_axes \in LockedAxesOptions
    /\ dominance_override \in DominanceOptions
    /\ ret = NoRet

\* An accessor takes &self: the call returns a value and stores nothing.
Call(fn, value) ==
    /\ ret' = value
    /\ hist' = <<[op |-> fn, pre |-> mass_props]>>
    /\ UNCHANGED <<mass_props, ops, scenario, rb, locked_axes, dominance_override>>

EffectiveInvMass2d ==
    Call("effective_inv_mass",
         [NoRet EXCEPT !.fn = "effective_inv_mass",
                       !.vec = effective_inv_mass(mass_props, locked_axes)])

EffectiveInvMass3d ==
    Call("effective_inv_mass_3d",
         [NoRet EXCEPT !.fn = "effective_inv_mass_3d",
                       !.vec = effective_inv_mass_3d(mass_props, locked_axes)])

EffectiveWorldInvInertia2d ==
    Call("effective_world_inv_inertia",
         [NoRet EXCEPT !.fn = "effective_world_inv_inertia",
                       !.scalar = effective_world_inv_inertia(mass_props, locked_axes)])

Dominance2d ==
    Call("dominance",
         [NoRet EXCEPT !.fn = "dominance", !.i8 = dominance(rb, dominance_override)])

Dominance3d ==
    Call("dominance_3d",
         [NoRet EXCEPT !.fn = "dominance_3d", !.i8 = dominance_3d(rb, dominance_override)])

NextQuery ==
    \/ EffectiveInvMass2d
    \/ EffectiveInvMass3d
    \/ EffectiveWorldInvInertia2d
    \/ Dominance2d
    \/ Dominance3d

SpecQuery == InitQuery /\ [][NextQuery]_vars

\* ------------------------------------------------------------------------
\* Properties
\* ------------------------------------------------------------------------

\* The record left by the i-th latest operation of the history.
Post(i) == IF i = 1 THEN mass_props ELSE hist[i - 1].pre

Entries == IF scenario = "query" THEN {} ELSE DOMAIN hist

MassSum(h) == FAdd(h.pre.mass, h.rhs.mass)

MassDiff(h) == FSub(h.pre.mass, h.rhs.mass)

Commits(h) == FGt(MassSum(h), ZERO)

\* |a - b| <= 10^-6
Within1e6(a, b) ==
    LET d == FSub(a, b)
    IN  FLe(d, <<1, 1000000>>) /\ FLe(FNeg(d), <<1, 1000000>>)

Decimal6(n) == <<n, 1000000>>

SquaredDistance(u, v) ==
    LET dx == FSub(u[1], v[1])
        dy == FSub(u[2], v[2])
    IN  FAdd(FMul(dx, dx), FMul(dy, dy))

\* Moment of inertia of (i, m, c) about the point p, by the parallel-axis theorem.
InertiaAbout(i, m, c, p) == FAdd(i, FMul(m, SquaredDistance(p, c)))

\* The whole history is recorded and every contribution has mass >= 0.
OnlyNonNegativeContributions ==
    /\ Len(hist) = ops
    /\ \A i \in Entries : FLe(ZERO, hist[i].rhs.mass)

\* C1: after any sequence of += / -= with contributions of mass >= 0, the
\* stored inverse_mass is 1/mass when mass > 0 and 0 when mass == 0.
C1_InverseMassConsistent ==
    (scenario # "query" /\ OnlyNonNegativeContributions) =>
        /\ FGt(mass_props.mass, ZERO) =>
               FMul(mass_props.inverse_mass, mass_props.mass) = ONE
        /\ mass_props.mass = ZERO => mass_props.inverse_mass = ZERO

\* A += C immediately followed by -= C, with C.mass > 0.
IsRoundTrip ==
    /\ scenario = "pair"
    /\ Len(hist) = 2
    /\ hist[2].op = "add"
    /\ hist[1].op = "sub"
    /\ hist[1].rhs = hist[2].rhs
    /\ FGt(hist[2].rhs.mass, ZERO)

\* C2 as stated, for the center of mass (the field whose value after -= does
\* not rest on the 1/0 of C1): += C then -= C (C.mass > 0) restores the
\* center_of_mass of every body record with mass >= 0, mass 0 included.
C2_RoundTripAnyMass ==
    IsRoundTrip => mass_props.center_of_mass = hist[2].pre.center_of_mass

\* C2 amended: += C then -= C (C.mass > 0) restores mass, inverse_mass, inertia,
\* inverse_inertia and center_of_mass of every body record with mass > EPSILON.
C2_RoundTripPositiveMass ==
    (IsRoundTrip /\ FGt(hist[2].pre.mass, EPSILON)) =>
        /\ mass_props.mass = hist[2].pre.mass
        /\ mass_props.inverse_mass = hist[2].pre.inverse_mass
        /\ mass_props.inertia = hist[2].pre.inertia
        /\ mass_props.inverse_inertia = hist[2].pre.inverse_inertia
        /\ mass_props.center_of_mass = hist[2].pre.center_of_mass

C2_Witness ==
    /\ IsRoundTrip
    /\ FGt(hist[2].pre.mass, EPSILON)
    /\ hist[2].pre.center_of_mass # hist[2].rhs.center_of_mass
    /\ hist[2].pre.inertia # ZERO
    /\ hist[2].rhs.inertia # ZERO
    /\ hist[1].pre # hist[2].pre

\* C3: after any sequence of += / -= with arbitrary contributions (mass zero,
\* larger than the body's, or negative), mass >= 0 and inverse_mass >= 0.
C3_NonNegative ==
    scenario # "query" =>
        /\ FLe(ZERO, mass_props.mass)
        /\ FLe(ZERO, mass_props.inverse_mass)

C3_Witness ==
    /\ scenario = "pair"
    /\ Len(hist) = 2
    /\ hist[2].op = "add"
    /\ FGt(ZERO, hist[2].rhs.mass)
    /\ Commits(hist[2])
    /\ hist[1].op = "sub"
    /\ FGt(hist[1].rhs.mass, hist[1].pre.mass)
    /\ mass_props.mass = ZERO

\* C4: += and -= return without committing when body.mass + collider.mass <= 0
\* (all five fields unchanged); a -= with a positive sum and a difference <= 0
\* is not a no-op: it commits mass 0, inverse_mass 1/0 and the body's center
\* of mass.
C4_DegenerateNoOp ==
    \A i \in Entries :
        LET h == hist[i] IN
        /\ FLe(MassSum(h), ZERO) => Post(i) = h.pre
        /\ (h.op = "sub" /\ FGt(MassSum(h), ZERO) /\ FLe(MassDiff(h), ZERO)) =>
               /\ Post(i).mass = ZERO
               /\ Post(i).inverse_mass = INFINITY
               /\ Post(i).center_of_mass = h.pre.center_of_mass

C4_Witness ==
    /\ scenario = "pair"
    /\ Len(hist) = 2
    /\ hist[2].op = "add"
    /\ FLe(MassSum(hist[2]), ZERO)
    /\ hist[2].rhs.center_of_mass # hist[2].pre.center_of_mass
    /\ hist[1].op = "sub"
    /\ FGt(MassSum(hist[1]), ZERO)
    /\ FGt(ZERO, MassDiff(hist[1]))
    /\ hist[1].pre.inverse_mass # INFINITY
    /\ mass_props # hist[1].pre

\* C5: a += with body.mass + collider.mass > 0 commits mass = the sum,
\* inverse_mass = 1/mass and center_of_mass = the mass-weighted average of the
\* two centers of mass; 1.6 @ (-3.8, 0) += 8.1 @ (1.2, 1.0) gives mass 9.7,
\* inverse mass 1/9.7 and center of mass (0.375257, 0.835051) within 1e-6.
C5_CombineResult ==
    /\ \A i \in Entries :
           LET h == hist[i] IN
           (h.op = "add" /\ Commits(h)) =>
               /\ Post(i).mass = MassSum(h)
               /\ FMul(Post(i).inverse_mass, Post(i).mass) = ONE
               /\ VScale(Post(i).center_of_mass, Post(i).mass) =
                      VAdd(VScale(h.pre.center_of_mass, h.pre.mass),
                           VScale(h.rhs.center_of_mass, h.rhs.mass))
    /\ (scenario = "mass_properties_add_assign_works" /\ ops = 1) =>
           /\ mass_props.mass = <<97, 10>>
           /\ mass_props.inverse_mass = <<10, 97>>
           /\ Within1e6(mass_props.center_of_mass[1], Decimal6(375257))
           /\ Within1e6(mass_props.center_of_mass[2], Decimal6(835051))

C5_Witness ==
    /\ scenario = "mass_properties_add_assign_works"
    /\ ops = 1
    /\ hist[1].op = "add"
    /\ Commits(hist[1])

\* C6: a -= with body.mass + collider.mass > 0 commits
\* mass = max(body.mass - collider.mass, 0); the committed center of mass is
\* (com_body*mass_body - com_collider*mass_collider) / mass when that mass is
\* above EPSILON and the body's previous center of mass otherwise;
\* 8.1 @ (-3.8, 0) -= 1.6 @ (1.2, 1.0) gives mass 6.5 and center of mass
\* (-5.030769, -0.246153) within 1e-6.
C6_DecombineResult ==
    /\ \A i \in Entries :
           LET h == hist[i] IN
           (h.op = "sub" /\ Commits(h)) =>
               /\ Post(i).mass = (IF FLe(ZERO, MassDiff(h)) THEN MassDiff(h) ELSE ZERO)
               /\ FGt(Post(i).mass, EPSILON) =>
                      VScale(Post(i).center_of_mass, Post(i).mass) =
                          VSub(VScale(h.pre.center_of_mass, h.pre.mass),
                               VScale(h.rhs.center_of_mass, h.rhs.mass))
               /\ ~FGt(Post(i).mass, EPSILON) =>
                      Post(i).center_of_mass = h.pre.center_of_mass
    /\ (scenario = "mass_properties_sub_assign_works" /\ ops = 1) =>
           /\ mass_props.mass = <<13, 2>>
           /\ mass_props.inverse_mass = <<2, 13>>
           /\ Within1e6(mass_props.center_of_mass[1], Decimal6(-5030769))
           /\ Within1e6(mass_props.center_of_mass[2], Decimal6(-246153))

C6_Witness ==
    /\ scenario = "pair"
    /\ Len(hist) = 2
    /\ hist[2].op = "sub"
    /\ Commits(hist[2])
    /\ FGt(hist[1].pre.mass, EPSILON)
    /\ hist[1].pre.center_of_mass # hist[2].pre.center_of_mass
    /\ hist[1].op = "sub"
    /\ hist[1].rhs.center_of_mass # hist[1].pre.center_of_mass
    /\ mass_props.mass = ZERO
    /\ mass_props.center_of_mass = hist[1].pre.center_of_mass

\* C7: a committing += stores the sum, and a committing -= the difference, of
\* the body's and the collider's inertia, each shifted by the parallel-axis
\* theorem (I + m*|d|^2) to the committed center of mass.
C7_ParallelAxisInertia ==
    \A i \in Entries :
        LET h == hist[i]
            body == InertiaAbout(h.pre.inertia, h.pre.mass, h.pre.center_of_mass,
                                 Post(i).center_of_mass)
            collider == InertiaAbout(h.rhs.inertia, h.rhs.mass, h.rhs.center_of_mass,
                                     Post(i).center_of_mass)
        IN  Commits(h) =>
                /\ h.op = "add" => Post(i).inertia = FAdd(body, collider)
                /\ h.op = "sub" => Post(i).inertia = FSub(body, collider)

C7_Witness ==
    /\ scenario = "pair"
    /\ Len(hist) = 2
    /\ hist[2].op = "add"
    /\ hist[1].op = "sub"
    /\ \A i \in {1, 2} :
           /\ Commits(hist[i])
           /\ FGt(hist[i].pre.mass, ZERO)
           /\ FGt(hist[i].rhs.mass, ZERO)
           /\ Post(i).center_of_mass # hist[i].pre.center_of_mass
           /\ Post(i).center_of_mass # hist[i].rhs.center_of_mass
           /\ hist[i].rhs.inertia # ZERO

\* C8: dominance() is 127 for a static or kinematic body whatever the override,
\* 0 for a dynamic body without an override, and the override's value for a
\* dynamic body with one.
C8_Dominance ==
    ret.fn \in {"dominance", "dominance_3d"} =>
        /\ rb \in {"Static", "Kinematic"} => ret.i8 = 127
        /\ (rb = "Dynamic" /\ ~dominance_override.present) => ret.i8 = 0
        /\ (rb = "Dynamic" /\ dominance_override.present) =>
               ret.i8 = dominance_override.value

C8_Witness ==
    /\ ret.fn = "dominance"
    /\ rb = "Kinematic"
    /\ dominance_override.present
    /\ dominance_override.value = -128
    /\ ret.i8 = 127

\* C9: effective_inv_mass() is 0 on every locked translation axis and the stored
\* inverse_mass on every other axis (on all axes without LockedAxes), and the
\* effective_* accessors leave the five stored fields unchanged.
C9_LockedAxisMasking ==
    /\ ret.fn \in {"effective_inv_mass", "effective_inv_mass_3d"} =>
           LET names == IF ret.fn = "effective_inv_mass"
                        THEN <<"TX", "TY">> ELSE <<"TX", "TY", "TZ">>
           IN  /\ DOMAIN ret.vec = DOMAIN names
               /\ \A i \in DOMAIN names :
                      ret.vec[i] = IF locked_axes.present /\ names[i] \in locked_axes.axes
                                   THEN ZERO ELSE mass_props.inverse_mass
    /\ ret.fn \in {"effective_inv_mass", "effective_inv_mass_3d",
                   "effective_world_inv_inertia"} =>
           mass_props = hist[1].pre

C9_Witness ==
    /\ ret.fn = "effective_inv_mass"
    /\ locked_axes.present
    /\ locked_axes.axes = {"TY"}
    /\ mass_props.inverse_mass # ZERO
    /\ ret.vec = <<mass_props.inverse_mass, ZERO>>

\* Two += in a row, both with a contribution of mass > 0.
IsTwoCombines ==
    /\ scenario = "pair"
    /\ Len(hist) = 2
    /\ hist[2].op = "add"
    /\ hist[1].op = "add"
    /\ FGt(hist[2].rhs.mass, ZERO)
    /\ FGt(hist[1].rhs.mass, ZERO)

\* C10: combining C1 then C2 into a body (both of mass > 0) stores the same
\* mass, center_of_mass and inertia as combining C2 then C1.
C10_OrderIndependence ==
    IsTwoCombines =>
        LET swapped == add_assign(add_assign(hist[2].pre, hist[1].rhs), hist[2].rhs)
        IN  /\ mass_props.mass = swapped.mass
            /\ mass_props.center_of_mass = swapped.center_of_mass
            /\ mass_props.inertia = swapped.inertia

C10_Witness ==
    /\ IsTwoCombines
    /\ FGt(hist[2].pre.mass, ZERO)
    /\ hist[2].rhs.mass # hist[1].rhs.mass
    /\ hist[2].rhs.center_of_mass # hist[1].rhs.center_of_mass
    /\ hist[2].rhs.center_of_mass # hist[2].pre.center_of_mass
    /\ hist[1].rhs.center_of_mass # hist[2].pre.center_of_mass
    /\ hist[2].rhs.inertia # hist[1].rhs.inertia

====
